---------------------------- MODULE Spec2Model ----------------------------
(***************************************************************************)
(* KOL dashboard: the standalone alert script (alert.py) and the dashboard *)
(* page (app.py), both reading one snapshot of the two sheets KOL_Master   *)
(* and Activities.                                                         *)
(*                                                                         *)
(* Time is counted in ticks, TicksPerDay of them in a calendar day.  A     *)
(* well-formed "YYYY-MM-DD" cell parses to midnight of its day, that is to *)
(* day * TicksPerDay; datetime.now() is any tick of the as-of day.         *)
(***************************************************************************)
EXTENDS Integers, Sequences, FiniteSets, TLC

VARIABLES
    prog,                \* which program runs: "alert" (alert.py) or "app" (app.py)
    pc,                  \* position of the run in its script
    master_sheet,        \* worksheet KOL_Master as stored (rows of raw cells)
    activities_sheet,    \* worksheet Activities as stored
    master_cols,         \* columns of master_df
    act_cols,            \* columns of activities_df
    master_df,           \* the roster table the script works on
    activities_df,       \* the activity table the script works on
    today,               \* datetime.now() captured by the alert section
    alert_found,
    imminent_contracts,  \* bucket 1
    imminent_activities, \* bucket 2 (alert.py only)
    overdue_activities,  \* bucket 3
    out,                 \* alert lines printed (alert.py) / rows shown (app.py)
    all_normal,          \* the "all schedules are normal" message was shown
    exit_code,           \* alert.py process exit status, NoExit while running
    selected_name,       \* app.py sidebar selection
    timeline_data,       \* app.py monthly activity histogram
    completed_timeline,  \* app.py monthly completed histogram
    kpi,                 \* app.py KPI summary metrics
    detail               \* app.py per-person detail metrics

vars == <<prog, pc, master_sheet, activities_sheet, master_cols, act_cols,
          master_df, activities_df, today, alert_found, imminent_contracts,
          imminent_activities, overdue_activities, out, all_normal, exit_code,
          selected_name, timeline_data, completed_timeline, kpi, detail>>

---------------------------------------------------------------------------
(* Bounds of the model *)

MaxRoster == 1      \* rows of KOL_Master
MaxActs == 1        \* rows of Activities
TicksPerDay == 2    \* instants told apart within one calendar day
BaseDay == 10       \* day number of the as-of date

(* Program constants *)

CONTRACT_ALERT_DAYS == 30
ACTIVITY_ALERT_DAYS == 7
DASH_CONTRACT_DAYS == 30

---------------------------------------------------------------------------
(* Cells and values *)

\* pandas NaT: the result of to_datetime(errors='coerce') on an unparsable cell
NaT == -1
\* a missing (NaN) identifier cell
NoId == 0
\* a missing (NaN) text cell, as the left join leaves Name when no key matches
NaN == "nan"
\* exit status of a process that has not exited
NoExit == -1

\* A date cell: either the text of a calendar day or text that is no date.
DateCell(d) == [ok |-> TRUE, day |-> d]
BadDate == [ok |-> FALSE, day |-> 0]

\* A numeric cell: either the text of a number or text that is no number.
NumCell(v) == [ok |-> TRUE, v |-> v]
BadNum == [ok |-> FALSE, v |-> 0]

\* pd.to_datetime(cell, errors='coerce')
to_datetime(c) == IF c.ok THEN c.day * TicksPerDay ELSE NaT

\* Timestamp comparisons: every comparison with NaT is False.
Le(a, b) == a # NaT /\ b # NaT /\ a <= b
Ge(a, b) == a # NaT /\ b # NaT /\ a >= b
Lt(a, b) == a # NaT /\ b # NaT /\ a < b

\* today + timedelta(days=n)
PlusDays(t, n) == t + n * TicksPerDay

\* (a - b).days: timedelta.days is the floor of the difference in days
DaysBetween(a, b) == (a - b) \div TicksPerDay

\* calendar month of a timestamp, as dt.to_period('M').astype(str) labels it;
\* a NaT timestamp gets the label 'NaT' (here the key NaT)
DaysPerMonth == 30
YearMonth(t) == IF t = NaT THEN NaT ELSE (t \div TicksPerDay) \div DaysPerMonth

(* float64 values: a rational n/d with d > 0, or nan, inf, -inf *)

RECURSIVE GCD(_, _)
GCD(a, b) == IF b = 0 THEN a ELSE GCD(b, a % b)

Abs(n) == IF n < 0 THEN -n ELSE n

Frac(n, d) ==
    LET g == GCD(Abs(n), d) IN [k |-> "num", n |-> n \div g, d |-> d \div g]
Num(n) == Frac(n, 1)
FNaN == [k |-> "nan", n |-> 0, d |-> 1]
FInf == [k |-> "inf", n |-> 1, d |-> 1]
FNegInf == [k |-> "-inf", n |-> -1, d |-> 1]

\* a / b on two numeric columns: division by zero gives inf, -inf or nan
FDiv(a, b) ==
    IF b = 0 THEN (IF a = 0 THEN FNaN ELSE IF a > 0 THEN FInf ELSE FNegInf)
    ELSE IF b > 0 THEN Frac(a, b) ELSE Frac(-a, -b)

\* x * 100
Times100(x) == IF x.k = "num" THEN Frac(x.n * 100, x.d) ELSE x

\* x.fillna(0)
FillNa0(x) == IF x.k = "nan" THEN Num(0) ELSE x

\* x <= c and x >= c for an integer c (False for nan)
FLeq(x, c) == x.k = "-inf" \/ (x.k = "num" /\ x.n <= c * x.d)
FGeq(x, c) == x.k = "inf" \/ (x.k = "num" /\ x.n >= c * x.d)

\* x + y and x / n, for the mean of a column
FAdd(x, y) ==
    IF x.k = "nan" \/ y.k = "nan" THEN FNaN
    ELSE IF x.k = "num" /\ y.k = "num" THEN Frac(x.n * y.d + y.n * x.d, x.d * y.d)
    ELSE IF x.k = "num" THEN y
    ELSE IF y.k = "num" \/ x.k = y.k THEN x
    ELSE FNaN
FOver(x, n) ==
    IF n = 0 THEN FNaN
    ELSE IF x.k = "num" THEN Frac(x.n, x.d * n) ELSE x

\* pd.to_numeric(cell, errors='coerce') followed by fillna(0)
to_numeric_fillna0(c) == IF c.ok THEN c.v ELSE 0

NameList == <<"Kim", "Lee", "Park", "Choi">>

MASTER_COLUMNS == {"Kol_ID", "Name", "Country", "Contract_End"}
ACTIVITY_COLUMNS == {"Kol_ID", "Activity_Type", "Due_Date", "Status"}

---------------------------------------------------------------------------
(* Table helpers *)

\* the row r with column f set to v (df[f] = ...)
Ext(r, f, v) == [g \in DOMAIN r \cup {f} |-> IF g = f THEN v ELSE r[g]]

RECURSIVE SelectRows(_, _, _)
\* df[mask]: the rows whose index is in keep, in table order
SelectRows(df, keep, i) ==
    IF i > Len(df) THEN << >>
    ELSE (IF i \in keep THEN <<df[i]>> ELSE << >>) \o SelectRows(df, keep, i + 1)

\* df.dropna(subset=['Contract_End_DT'])
DropNaContract(df) ==
    SelectRows(df, {i \in 1..Len(df) : df[i].Contract_End_DT # NaT}, 1)

\* df.dropna(subset=['Due_Date_DT'])
DropNaDue(df) ==
    SelectRows(df, {i \in 1..Len(df) : df[i].Due_Date_DT # NaT}, 1)

\* df.dropna(how='all'): a row is dropped when every cell of it is empty
DropAllBlank(sheet) ==
    SelectRows(sheet, {i \in 1..Len(sheet) : ~sheet[i].blank}, 1)

RECURSIVE MatchNames(_, _, _)
\* the Name cells of the right rows whose Kol_ID equals k, in table order
MatchNames(right, k, j) ==
    IF j > Len(right) THEN << >>
    ELSE (IF right[j].Kol_ID = k /\ k # NoId THEN <<right[j].Name>> ELSE << >>)
         \o MatchNames(right, k, j + 1)

RECURSIVE MergeName(_, _, _)
\* pd.merge(left, right[['Kol_ID','Name']], on='Kol_ID', how='left'):
\* one output row per matching right row, one row with a missing Name if none
MergeName(left, right, i) ==
    IF i > Len(left) THEN << >>
    ELSE LET ns == MatchNames(right, left[i].Kol_ID, 1)
             rows == IF ns = << >>
                     THEN <<Ext(left[i], "Name", NaN)>>
                     ELSE [j \in 1..Len(ns) |-> Ext(left[i], "Name", ns[j])]
         IN  rows \o MergeName(left, right, i + 1)

---------------------------------------------------------------------------
(* The two sheets *)

\* the sidebar entry that selects the overview page
ALL == "ALL"

RosterRow(i, ce, b, s) ==
    [idx |-> i, blank |-> FALSE, Kol_ID |-> i, Name |-> NameList[i],
     Country |-> "KR", Contract_End |-> ce, Budget |-> b, Spent |-> s]

\* has: the Activity_ID cell is filled in (with the row's number)
ActivityRow(i, has, k, due, st) ==
    [idx |-> i, blank |-> FALSE, Activity_ID |-> IF has THEN i ELSE NoId,
     Kol_ID |-> k, Activity_Type |-> "Lecture", Due_Date |-> due, Status |-> st]

\* a row of the sheet with every cell empty
BlankActivityRow(i) ==
    [idx |-> i, blank |-> TRUE, Activity_ID |-> NoId, Kol_ID |-> NoId,
     Activity_Type |-> NaN, Due_Date |-> BadDate, Status |-> NaN]

\* the sheets of S and the same sheets followed by one blank row
WithTrailingBlank(S) == S \cup {Append(a, BlankActivityRow(Len(a) + 1)) : a \in S}

\* rosters of at most MaxRoster persons; identifiers are unique (row i is person i)
RosterSheets(CE, B, S) ==
    UNION {{[i \in 1..n |-> RosterRow(i, f[i][1], f[i][2], f[i][3])] :
               f \in [1..n -> CE \X B \X S]} : n \in 0..MaxRoster}

\* activity logs of at most MaxActs rows
ActivitySheets(A, K, D, St) ==
    UNION {{[i \in 1..n |-> ActivityRow(i, f[i][1], f[i][2], f[i][3], f[i][4])] :
               f \in [1..n -> A \X K \X D \X St]} : n \in 0..MaxActs}

\* contract-end cells: unparsable, the as-of day, the last day of the horizon,
\* the day after it
ContractCells ==
    {BadDate, DateCell(BaseDay), DateCell(BaseDay + CONTRACT_ALERT_DAYS),
     DateCell(BaseDay + CONTRACT_ALERT_DAYS + 1)}

\* due-date cells: unparsable, the day before the as-of day, the as-of day,
\* a day inside the activity horizon, a day beyond it
DueCells ==
    {BadDate, DateCell(BaseDay - 1), DateCell(BaseDay),
     DateCell(BaseDay + ACTIVITY_ALERT_DAYS - 1),
     DateCell(BaseDay + ACTIVITY_ALERT_DAYS + 1)}

\* owner identifiers: persons 1..MaxRoster; an owner beyond the roster's
\* length is an unresolved foreign key
OwnerIds == 1..(MaxRoster + 1)

Statuses == {"Done", "Planned", "Delayed"}

\* the instants datetime.now() can return on the as-of day
NowInstants == {BaseDay * TicksPerDay + t : t \in 0..(TicksPerDay - 1)}

\* the columns the fetched tables can have: all of them, or all but one of
\* the date, name and status columns
ColumnChoices ==
    {<<MASTER_COLUMNS, ACTIVITY_COLUMNS>>}
    \cup {<<MASTER_COLUMNS \ {c}, ACTIVITY_COLUMNS>> : c \in {"Contract_End", "Name"}}
    \cup {<<MASTER_COLUMNS, ACTIVITY_COLUMNS \ {c}>> : c \in {"Due_Date", "Status"}}

---------------------------------------------------------------------------
(* alert.py *)

\* the contract filter with an exclusive upper end of the horizon
ImminentContractsExclusive(df, now) ==
    SelectRows(df, {i \in 1..Len(df) :
        /\ Lt(df[i].Contract_End_DT, PlusDays(now, CONTRACT_ALERT_DAYS))
        /\ Ge(df[i].Contract_End_DT, now)}, 1)

\* alert.py:56-59
ImminentContracts(df, now) ==
    SelectRows(df, {i \in 1..Len(df) :
        /\ Le(df[i].Contract_End_DT, PlusDays(now, CONTRACT_ALERT_DAYS))
        /\ Ge(df[i].Contract_End_DT, now)}, 1)

\* the due-soon filter without its lower end: past due dates pass it too
ImminentActivitiesNoLowerEnd(df, now) ==
    SelectRows(df, {i \in 1..Len(df) :
        /\ Le(df[i].Due_Date_DT, PlusDays(now, ACTIVITY_ALERT_DAYS))
        /\ df[i].Status = "Planned"}, 1)

\* alert.py:74-78
ImminentActivities(df, now) ==
    SelectRows(df, {i \in 1..Len(df) :
        /\ Le(df[i].Due_Date_DT, PlusDays(now, ACTIVITY_ALERT_DAYS))
        /\ Ge(df[i].Due_Date_DT, now)
        /\ df[i].Status = "Planned"}, 1)

\* the overdue filter with "not after" in place of "before"
OverdueActivitiesInclusive(df, now) ==
    SelectRows(df, {i \in 1..Len(df) :
        /\ Le(df[i].Due_Date_DT, now)
        /\ df[i].Status # "Done"}, 1)

\* alert.py:93-96
OverdueActivities(df, now) ==
    SelectRows(df, {i \in 1..Len(df) :
        /\ Lt(df[i].Due_Date_DT, now)
        /\ df[i].Status # "Done"}, 1)

\* the printed line of one bucket row
Line(b, d, r) == [bucket |-> b, d |-> d, name |-> r.Name, idx |-> r.idx]

\* an uncaught exception: the traceback is printed and the process exits 1
Crash ==
    /\ exit_code' = 1
    /\ pc' = "exit"

\* alert.py:16-27
AlertLoad ==
    /\ prog = "alert" /\ pc = "load"
    /\ \E ok \in BOOLEAN, cols \in ColumnChoices :
          IF ~ok
          THEN /\ Crash
               /\ UNCHANGED <<master_df, activities_df, master_cols, act_cols>>
          ELSE /\ master_df' = DropAllBlank(master_sheet)
               /\ activities_df' = DropAllBlank(activities_sheet)
               /\ master_cols' = cols[1]
               /\ act_cols' = cols[2]
               /\ pc' = "normalize"
               /\ UNCHANGED exit_code
    /\ UNCHANGED <<prog, master_sheet, activities_sheet, today, alert_found,
                   imminent_contracts, imminent_activities, overdue_activities,
                   out, all_normal, selected_name, timeline_data,
                   completed_timeline, kpi, detail>>

\* alert.py:31-43
AlertNormalize ==
    /\ prog = "alert" /\ pc = "normalize"
    /\ IF "Contract_End" \notin master_cols
       THEN /\ Crash
            /\ UNCHANGED <<master_df, activities_df, master_cols, act_cols>>
       ELSE IF "Due_Date" \notin act_cols
       THEN /\ Crash
            /\ master_df' = [i \in 1..Len(master_df) |->
                   Ext(master_df[i], "Contract_End_DT",
                       to_datetime(master_df[i].Contract_End))]
            /\ master_cols' = master_cols \cup {"Contract_End_DT"}
            /\ UNCHANGED <<activities_df, act_cols>>
       ELSE /\ master_df' = DropNaContract([i \in 1..Len(master_df) |->
                   Ext(master_df[i], "Contract_End_DT",
                       to_datetime(master_df[i].Contract_End))])
            /\ activities_df' = DropNaDue([i \in 1..Len(activities_df) |->
                   Ext(activities_df[i], "Due_Date_DT",
                       to_datetime(activities_df[i].Due_Date))])
            /\ master_cols' = master_cols \cup {"Contract_End_DT"}
            /\ act_cols' = act_cols \cup {"Due_Date_DT"}
            /\ pc' = "search1"
            /\ UNCHANGED exit_code
    /\ UNCHANGED <<prog, master_sheet, activities_sheet, today, alert_found,
                   imminent_contracts, imminent_activities, overdue_activities,
                   out, all_normal, selected_name, timeline_data,
                   completed_timeline, kpi, detail>>

\* alert.py:47-67
AlertContracts ==
    /\ prog = "alert" /\ pc = "search1"
    /\ \E now \in NowInstants :
          LET hit == ImminentContracts(master_df, now)
          IN  /\ today' = now
              /\ imminent_contracts' = hit
              /\ alert_found' = (hit # << >>)
              /\ IF hit # << >> /\ ~({"Name", "Country"} \subseteq master_cols)
                 THEN Crash /\ UNCHANGED out
                 ELSE /\ out' = out \o [i \in 1..Len(hit) |->
                             Line(1, DaysBetween(hit[i].Contract_End_DT, now), hit[i])]
                      /\ pc' = "search2"
                      /\ UNCHANGED exit_code
    /\ UNCHANGED <<prog, master_sheet, activities_sheet, master_cols, act_cols,
                   master_df, activities_df, imminent_activities,
                   overdue_activities, all_normal, selected_name, timeline_data,
                   completed_timeline, kpi, detail>>

\* alert.py:70-88
AlertImminentActivities ==
    /\ prog = "alert" /\ pc = "search2"
    /\ IF "Status" \notin act_cols
       THEN Crash /\ UNCHANGED <<imminent_activities, alert_found, out>>
       ELSE LET hit == ImminentActivities(activities_df, today)
                merged == MergeName(hit, master_df, 1)
            IN  IF hit = << >>
                THEN /\ imminent_activities' = hit
                     /\ pc' = "search3"
                     /\ UNCHANGED <<alert_found, out, exit_code>>
                ELSE /\ alert_found' = TRUE
                     /\ IF ~({"Kol_ID", "Name"} \subseteq master_cols)
                           \/ "Kol_ID" \notin act_cols
                        THEN /\ Crash
                             /\ imminent_activities' = hit
                             /\ UNCHANGED out
                        ELSE IF "Activity_Type" \notin act_cols
                        THEN /\ Crash
                             /\ imminent_activities' = merged
                             /\ UNCHANGED out
                        ELSE /\ imminent_activities' = merged
                             /\ out' = out \o [i \in 1..Len(merged) |->
                                    Line(2, DaysBetween(merged[i].Due_Date_DT, today),
                                         merged[i])]
                             /\ pc' = "search3"
                             /\ UNCHANGED exit_code
    /\ UNCHANGED <<prog, master_sheet, activities_sheet, master_cols, act_cols,
                   master_df, activities_df, today, imminent_contracts,
                   overdue_activities, all_normal, selected_name, timeline_data,
                   completed_timeline, kpi, detail>>

\* alert.py:91-105
AlertOverdue ==
    /\ prog = "alert" /\ pc = "search3"
    /\ LET hit == OverdueActivities(activities_df, today)
           merged == MergeName(hit, master_df, 1)
       IN  IF hit = << >>
           THEN /\ overdue_activities' = hit
                /\ pc' = "finish"
                /\ UNCHANGED <<alert_found, out, exit_code>>
           ELSE /\ alert_found' = TRUE
                /\ IF ~({"Kol_ID", "Name"} \subseteq master_cols)
                      \/ "Kol_ID" \notin act_cols
                   THEN /\ Crash
                        /\ overdue_activities' = hit
                        /\ UNCHANGED out
                   ELSE IF "Activity_Type" \notin act_cols
                   THEN /\ Crash
                        /\ overdue_activities' = merged
                        /\ UNCHANGED out
                   ELSE /\ overdue_activities' = merged
                        /\ out' = out \o [i \in 1..Len(merged) |->
                               Line(3, DaysBetween(today, merged[i].Due_Date_DT),
                                    merged[i])]
                        /\ pc' = "finish"
                        /\ UNCHANGED exit_code
    /\ UNCHANGED <<prog, master_sheet, activities_sheet, master_cols, act_cols,
                   master_df, activities_df, today, imminent_contracts,
                   imminent_activities, all_normal, selected_name, timeline_data,
                   completed_timeline, kpi, detail>>

\* alert.py:108-111, and the normal end of the script
AlertFinish ==
    /\ prog = "alert" /\ pc = "finish"
    /\ all_normal' = ~alert_found
    /\ exit_code' = 0
    /\ pc' = "exit"
    /\ UNCHANGED <<prog, master_sheet, activities_sheet, master_cols, act_cols,
                   master_df, activities_df, today, alert_found,
                   imminent_contracts, imminent_activities, overdue_activities,
                   out, selected_name, timeline_data, completed_timeline, kpi,
                   detail>>

---------------------------------------------------------------------------
(* app.py *)

RECURSIVE SumCol(_, _, _)
\* df[f].sum() of an integer column
SumCol(df, f, i) == IF i > Len(df) THEN 0 ELSE df[i][f] + SumCol(df, f, i + 1)

RECURSIVE FSumCol(_, _, _)
\* df[f].sum() of a float column
FSumCol(df, f, i) ==
    IF i > Len(df) THEN Num(0) ELSE FAdd(df[i][f], FSumCol(df, f, i + 1))

\* app.py:47-48: the groups of groupby('Kol_ID'); rows without a key form no group
GroupKeys(acts) == {acts[i].Kol_ID : i \in 1..Len(acts)} \ {NoId}

\* app.py:48: Total=('Activity_ID', 'count') counts the filled-in Activity_ID cells
GroupTotal(acts, k) ==
    Cardinality({i \in 1..Len(acts) :
        acts[i].Kol_ID = k /\ acts[i].Activity_ID # NoId})

\* app.py:47-48: Done=('Done', 'sum')
GroupDone(acts, k) ==
    Cardinality({i \in 1..Len(acts) :
        acts[i].Kol_ID = k /\ acts[i].Status = "Done"})

\* app.py:49-50: Completion_Rate of the roster person with identifier k
CompletionRate(acts, k) ==
    FillNa0(IF k \in GroupKeys(acts)
            THEN Times100(FDiv(GroupDone(acts, k), GroupTotal(acts, k)))
            ELSE FNaN)

\* min(x, 100)
Min100(x) ==
    IF x.k = "inf" \/ (x.k = "num" /\ x.n > 100 * x.d) THEN Num(100) ELSE x

\* app.py:51-52: Utilization_Rate
UtilizationRate(spent, budget) ==
    Min100(FillNa0(Times100(FDiv(spent, budget))))

\* app.py:302: kol_utilization of the detail view
DetailUtilization(spent, budget) ==
    IF budget > 0 THEN Times100(FDiv(spent, budget)) ELSE Num(0)

\* app.py:298: completion_rate of the detail view
DetailCompletion(done, total) ==
    IF total > 0 THEN Times100(FDiv(done, total)) ELSE Num(0)

\* app.py:41-52: the two tables load_data_from_gsheet returns
LoadedMaster(sheet, acts) ==
    LET df == DropAllBlank(sheet)
    IN  [i \in 1..Len(df) |->
           [idx |-> df[i].idx, Kol_ID |-> df[i].Kol_ID, Name |-> df[i].Name,
            Country |-> df[i].Country,
            Contract_End |-> to_datetime(df[i].Contract_End),
            Budget |-> to_numeric_fillna0(df[i].Budget),
            Spent |-> to_numeric_fillna0(df[i].Spent),
            Completion_Rate |-> CompletionRate(acts, df[i].Kol_ID),
            Utilization_Rate |->
                UtilizationRate(to_numeric_fillna0(df[i].Spent),
                                to_numeric_fillna0(df[i].Budget))]]

LoadedActivities(sheet) ==
    LET df == DropAllBlank(sheet)
    IN  [i \in 1..Len(df) |->
           [idx |-> df[i].idx, Activity_ID |-> df[i].Activity_ID,
            Kol_ID |-> df[i].Kol_ID, Activity_Type |-> df[i].Activity_Type,
            Due_Date |-> to_datetime(df[i].Due_Date), Status |-> df[i].Status,
            Done |-> IF df[i].Status = "Done" THEN 1 ELSE 0]]

\* groupby('YearMonth').size(): the count of rows per month label
MonthHistogram(df) ==
    [m \in {YearMonth(df[i].Due_Date) : i \in 1..Len(df)} |->
        Cardinality({i \in 1..Len(df) : YearMonth(df[i].Due_Date) = m})]

\* app.py:229-232
AppImminentContracts(df, now) ==
    SelectRows(df, {i \in 1..Len(df) :
        /\ Le(df[i].Contract_End, PlusDays(now, DASH_CONTRACT_DAYS))
        /\ Ge(df[i].Contract_End, now)}, 1)

\* app.py:242-245
AppOverdueActivities(df, now) ==
    SelectRows(df, {i \in 1..Len(df) :
        /\ Lt(df[i].Due_Date, now)
        /\ df[i].Status # "Done"}, 1)

NoKpi ==
    [shown |-> FALSE, headcount |-> 0, total_budget |-> 0, total_spent |-> 0,
     avg_completion |-> FNaN, avg_utilization |-> FNaN]

NoDetail ==
    [shown |-> FALSE, kol_id |-> NoId, total |-> 0, completion_rate |-> FNaN,
     kol_budget |-> 0, kol_utilization |-> FNaN]

\* app.py:14-59, 95: a failed authentication or fetch, or an exception while
\* converting, makes load_data_from_gsheet return (None, None)
AppLoad ==
    /\ prog = "app" /\ pc = "load"
    /\ \E ok \in BOOLEAN :
          IF ~ok
          THEN /\ pc' = "stop"
               /\ UNCHANGED <<master_df, activities_df>>
          ELSE /\ activities_df' = LoadedActivities(activities_sheet)
               /\ master_df' = LoadedMaster(master_sheet, activities_df')
               /\ pc' = "sidebar"
    /\ UNCHANGED <<prog, master_sheet, activities_sheet, master_cols, act_cols,
                   today, alert_found, imminent_contracts, imminent_activities,
                   overdue_activities, out, all_normal, exit_code,
                   selected_name, timeline_data, completed_timeline, kpi, detail>>

\* app.py:98-108: the sidebar selection decides which page is drawn
AppSidebar ==
    /\ prog = "app" /\ pc = "sidebar"
    /\ \E name \in {ALL} \cup {master_df[i].Name : i \in 1..Len(master_df)} :
          /\ selected_name' = name
          /\ pc' = IF name = ALL THEN "charts" ELSE "detail"
    /\ UNCHANGED <<prog, master_sheet, activities_sheet, master_cols, act_cols,
                   master_df, activities_df, today, alert_found,
                   imminent_contracts, imminent_activities, overdue_activities,
                   out, all_normal, exit_code, timeline_data,
                   completed_timeline, kpi, detail>>

\* app.py:113-199: the charts; the two monthly histograms are the data kept
AppCharts ==
    /\ prog = "app" /\ pc = "charts"
    /\ activities_df' = [i \in 1..Len(activities_df) |->
           Ext(activities_df[i], "YearMonth", YearMonth(activities_df[i].Due_Date))]
    /\ timeline_data' = MonthHistogram(activities_df)
    /\ completed_timeline' = MonthHistogram(
           SelectRows(activities_df,
               {i \in 1..Len(activities_df) : activities_df[i].Status = "Done"}, 1))
    /\ pc' = "kpi"
    /\ UNCHANGED <<prog, master_sheet, activities_sheet, master_cols, act_cols,
                   master_df, today, alert_found, imminent_contracts,
                   imminent_activities, overdue_activities, out, all_normal,
                   exit_code, selected_name, kpi, detail>>

\* app.py:206-216
AppKPI ==
    /\ prog = "app" /\ pc = "kpi"
    /\ LET total_budget == SumCol(master_df, "Budget", 1)
           total_spent == SumCol(master_df, "Spent", 1)
       IN  kpi' = [shown |-> TRUE,
                   headcount |-> Len(master_df),
                   total_budget |-> total_budget,
                   total_spent |-> total_spent,
                   avg_completion |->
                       FOver(FSumCol(master_df, "Completion_Rate", 1), Len(master_df)),
                   avg_utilization |->
                       IF total_budget > 0
                       THEN Times100(FDiv(total_spent, total_budget))
                       ELSE Num(0)]
    /\ pc' = "alerts"
    /\ UNCHANGED <<prog, master_sheet, activities_sheet, master_cols, act_cols,
                   master_df, activities_df, today, alert_found,
                   imminent_contracts, imminent_activities, overdue_activities,
                   out, all_normal, exit_code, selected_name, timeline_data,
                   completed_timeline, detail>>

\* app.py:223-257
AppAlerts ==
    /\ prog = "app" /\ pc = "alerts"
    /\ \E now \in NowInstants :
          LET contracts == AppImminentContracts(master_df, now)
              overdue == MergeName(AppOverdueActivities(activities_df, now),
                                   master_df, 1)
          IN  /\ today' = now
              /\ imminent_contracts' = contracts
              /\ overdue_activities' = overdue
              /\ alert_found' = (contracts # << >> \/ overdue # << >>)
              /\ out' = [i \in 1..Len(contracts) |->
                            Line(1, DaysBetween(contracts[i].Contract_End, now),
                                 contracts[i])]
                        \o [i \in 1..Len(overdue) |->
                            Line(3, DaysBetween(now, overdue[i].Due_Date),
                                 overdue[i])]
              /\ all_normal' = ~alert_found'
    /\ pc' = "done"
    /\ UNCHANGED <<prog, master_sheet, activities_sheet, master_cols, act_cols,
                   master_df, activities_df, imminent_activities, exit_code,
                   selected_name, timeline_data, completed_timeline, kpi, detail>>

\* app.py:281-344: the detail page of the selected person
AppDetail ==
    /\ prog = "app" /\ pc = "detail"
    /\ LET first == CHOOSE i \in 1..Len(master_df) :
                       /\ master_df[i].Name = selected_name
                       /\ \A j \in 1..(i - 1) : master_df[j].Name # selected_name
           selected_kol_id == master_df[first].Kol_ID
           kol_details == SelectRows(master_df,
               {i \in 1..Len(master_df) : master_df[i].Kol_ID = selected_kol_id}, 1)
           kol_activities == SelectRows(activities_df,
               {i \in 1..Len(activities_df) :
                   activities_df[i].Kol_ID = selected_kol_id}, 1)
           total == Len(kol_activities)
           done == Len(SelectRows(kol_activities,
               {i \in 1..Len(kol_activities) : kol_activities[i].Status = "Done"}, 1))
           kol_budget == kol_details[1].Budget
           kol_spent == kol_details[1].Spent
       IN  detail' =
             IF kol_activities = << >>
             THEN [NoDetail EXCEPT !.kol_id = selected_kol_id]
             ELSE [shown |-> TRUE, kol_id |-> selected_kol_id, total |-> total,
                   completion_rate |-> DetailCompletion(done, total),
                   kol_budget |-> kol_budget,
                   kol_utilization |-> DetailUtilization(kol_spent, kol_budget)]
    /\ pc' = "done"
    /\ UNCHANGED <<prog, master_sheet, activities_sheet, master_cols, act_cols,
                   master_df, activities_df, today, alert_found,
                   imminent_contracts, imminent_activities, overdue_activities,
                   out, all_normal, exit_code, selected_name, timeline_data,
                   completed_timeline, kpi>>

---------------------------------------------------------------------------
(* What the snapshot says, read off the sheets and not off the scripts' tables *)

\* the persons and the activities of the snapshot (rows that are not blank)
Persons == {i \in 1..Len(master_sheet) : ~master_sheet[i].blank}
Activities == {i \in 1..Len(activities_sheet) : ~activities_sheet[i].blank}

ContractParses(i) == master_sheet[i].Contract_End.ok
ContractInstant(i) == master_sheet[i].Contract_End.day * TicksPerDay
DueParses(i) == activities_sheet[i].Due_Date.ok
DueInstant(i) == activities_sheet[i].Due_Date.day * TicksPerDay
StatusOf(i) == activities_sheet[i].Status

\* row i of its sheet is a member of the bucket
InBucket(bucket, i) == \E j \in 1..Len(bucket) : bucket[j].idx = i

\* the alert section has captured its as-of timestamp and classified contracts
ContractsClassified == today # NaT

\* the run has computed every bucket it computes and reached its end
AlertRunComplete == prog = "alert" /\ pc = "exit" /\ exit_code = 0
DashRunComplete == prog = "app" /\ pc = "done" /\ selected_name = ALL

---------------------------------------------------------------------------
(* Claims *)

\* C1: every utilization rate the program computes for a person, the
\* Utilization_Rate column and the detail view's utilization, is within 0..100.
C1_UtilizationInRange ==
    /\ (prog = "app" /\ pc \notin {"load", "stop"}) =>
          \A i \in 1..Len(master_df) :
             /\ FGeq(master_df[i].Utilization_Rate, 0)
             /\ FLeq(master_df[i].Utilization_Rate, 100)
    /\ detail.shown =>
          /\ FGeq(detail.kol_utilization, 0)
          /\ FLeq(detail.kol_utilization, 100)

\* C2: a person whose budget is zero (also after an unparsable budget was
\* defaulted to zero) has utilization rate 0, whatever was spent.
C2_ZeroBudgetZeroUtilization ==
    (prog = "app" /\ pc \notin {"load", "stop"}) =>
        \A i \in 1..Len(master_df) :
            master_df[i].Budget = 0 => master_df[i].Utilization_Rate = Num(0)

\* C3: a person whose contract ends on the calendar date of the as-of
\* timestamp is in the contracts-expiring-soon bucket (with 0 days remaining),
\* at whatever time of day the as-of timestamp was captured.
C3_ExpiresTodayListed ==
    ContractsClassified =>
        \A i \in Persons :
            (ContractParses(i)
               /\ master_sheet[i].Contract_End.day = today \div TicksPerDay)
            => \E j \in 1..Len(imminent_contracts) :
                  /\ imminent_contracts[j].idx = i
                  /\ DaysBetween(ContractInstant(i), today) = 0

\* C4: an activity with a parseable due date is in the overdue bucket exactly
\* when its due date is before the as-of timestamp and its status is not "Done".
C4_OverdueExactly ==
    (AlertRunComplete \/ DashRunComplete) =>
        \A i \in Activities :
            DueParses(i) =>
                (InBucket(overdue_activities, i)
                    <=> (DueInstant(i) < today /\ StatusOf(i) # "Done"))

\* a run ended with a not-"Done" activity in the overdue bucket next to the
\* as-of timestamp it was classified against
C4_Witness ==
    /\ AlertRunComplete \/ DashRunComplete
    /\ \E i \in Activities :
          /\ StatusOf(i) = "Delayed"
          /\ InBucket(overdue_activities, i)

\* C5: in one run of the alert script no activity is in both the due-soon and
\* the overdue bucket; a "Planned" activity due before as-of is in the overdue
\* bucket only, and an activity that is not "Planned" is never due-soon.
C5_DueSoonOverdueDisjoint ==
    AlertRunComplete =>
        \A i \in Activities :
            /\ ~(InBucket(imminent_activities, i) /\ InBucket(overdue_activities, i))
            /\ (DueParses(i) /\ StatusOf(i) = "Planned" /\ DueInstant(i) < today)
                  => (InBucket(overdue_activities, i)
                        /\ ~InBucket(imminent_activities, i))
            /\ StatusOf(i) # "Planned" => ~InBucket(imminent_activities, i)

\* a run of the alert script ended with a "Planned" activity, due before the
\* as-of timestamp, in the overdue bucket
C5_Witness ==
    /\ AlertRunComplete
    /\ \E i \in Activities :
          /\ DueParses(i) /\ StatusOf(i) = "Planned" /\ DueInstant(i) < today
          /\ InBucket(overdue_activities, i)

\* the three bucket predicates of the alert classifier, on the snapshot
ExpiringSoon(i) ==
    /\ ContractParses(i)
    /\ today <= ContractInstant(i)
    /\ ContractInstant(i) <= PlusDays(today, CONTRACT_ALERT_DAYS)
DueSoon(i) ==
    /\ DueParses(i) /\ StatusOf(i) = "Planned"
    /\ today <= DueInstant(i)
    /\ DueInstant(i) <= PlusDays(today, ACTIVITY_ALERT_DAYS)
Overdue(i) == DueParses(i) /\ StatusOf(i) # "Done" /\ DueInstant(i) < today

\* C6: a run shows the "all schedules are normal" outcome only if no contract
\* expires soon, no "Planned" activity is due soon and no activity is overdue.
C6_AllNormalOnlyIfNoAlert ==
    all_normal =>
        /\ \A i \in Persons : ~ExpiringSoon(i)
        /\ \A i \in Activities : ~DueSoon(i) /\ ~Overdue(i)

\* C7: a run of the alert script that ends in failure exits non-zero with no
\* alert line printed; a run that finds no alert exits with status 0.
C7_NoPartialNotification ==
    (prog = "alert" /\ pc = "exit") =>
        /\ exit_code # 0 => out = << >>
        /\ all_normal => exit_code = 0

\* C8: rows whose date failed to parse are counted in no bucket of the two
\* monthly histograms and are in no alert bucket; a person whose contract-end
\* date failed to parse still counts towards the headcount.
C8_UnparsableDatesExcluded ==
    /\ (prog = "app" /\ pc \in {"kpi", "alerts", "done"} /\ selected_name = ALL) =>
          /\ \A m \in DOMAIN timeline_data :
                timeline_data[m] = Cardinality({i \in Activities :
                    DueParses(i) /\ YearMonth(DueInstant(i)) = m})
          /\ \A m \in DOMAIN completed_timeline :
                completed_timeline[m] = Cardinality({i \in Activities :
                    DueParses(i) /\ StatusOf(i) = "Done"
                      /\ YearMonth(DueInstant(i)) = m})
    /\ \A i \in Persons : ~ContractParses(i) => ~InBucket(imminent_contracts, i)
    /\ \A i \in Activities :
          ~DueParses(i) => /\ ~InBucket(imminent_activities, i)
                           /\ ~InBucket(overdue_activities, i)
    /\ kpi.shown => kpi.headcount = Cardinality(Persons)

\* the Name of the roster person whose identifier is k, missing if there is none
RosterName(k) ==
    IF \E p \in Persons : master_sheet[p].Kol_ID = k
    THEN master_sheet[CHOOSE p \in Persons : master_sheet[p].Kol_ID = k].Name
    ELSE NaN

\* C9: every activity that satisfies the predicate of the due-soon or the
\* overdue bucket is in that bucket's output, with the name of the roster
\* person its owner identifier names, and a missing name only if the roster
\* has no such person.
C9_JoinKeepsRowsAndNames ==
    AlertRunComplete =>
        \A i \in Activities :
            /\ DueSoon(i) =>
                  \E j \in 1..Len(imminent_activities) :
                     /\ imminent_activities[j].idx = i
                     /\ imminent_activities[j].Name
                          = RosterName(activities_sheet[i].Kol_ID)
            /\ Overdue(i) =>
                  \E j \in 1..Len(overdue_activities) :
                     /\ overdue_activities[j].idx = i
                     /\ overdue_activities[j].Name
                          = RosterName(activities_sheet[i].Kol_ID)

\* the activities of the person with identifier k, and those of them "Done"
OwnedBy(k) == {i \in Activities : activities_sheet[i].Kol_ID = k}
DoneBy(k) == {i \in OwnedBy(k) : StatusOf(i) = "Done"}

\* C10: a person's completion rate is 100 times the number of the person's
\* "Done" activities over the number of the person's activities, and 0 when
\* the person has no activity.
C10_CompletionRate ==
    (prog = "app" /\ pc \notin {"load", "stop"}) =>
        \A i \in 1..Len(master_df) :
            LET k == master_df[i].Kol_ID
                r == master_df[i].Completion_Rate
            IN  /\ r.k = "num"
                /\ r.n * Cardinality(OwnedBy(k))
                     = 100 * Cardinality(DoneBy(k)) * r.d
                /\ OwnedBy(k) = {} => r = Num(0)

\* the contract horizon of the running program, in days
ContractHorizon ==
    IF prog = "alert" THEN CONTRACT_ALERT_DAYS ELSE DASH_CONTRACT_DAYS

\* C11: the upper end of the contract horizon is inclusive: a person whose
\* contract ends at as-of plus the contract horizon (the instant, or the
\* calendar date that many days after the as-of date) is in the
\* contracts-expiring-soon bucket, and a person whose contract ends one day
\* later than that is not.
C11_HorizonEndInclusive ==
    ContractsClassified =>
        \A i \in Persons :
            ContractParses(i) =>
                /\ ContractInstant(i) = PlusDays(today, ContractHorizon)
                      => InBucket(imminent_contracts, i)
                /\ ContractInstant(i) = PlusDays(today, ContractHorizon + 1)
                      => ~InBucket(imminent_contracts, i)
                /\ master_sheet[i].Contract_End.day
                        = (today \div TicksPerDay) + ContractHorizon
                      => InBucket(imminent_contracts, i)
                /\ master_sheet[i].Contract_End.day
                        = (today \div TicksPerDay) + ContractHorizon + 1
                      => ~InBucket(imminent_contracts, i)

\* a run classified a person whose contract ends exactly at the as-of
\* instant plus the contract horizon, and put the person in bucket 1
C11_Witness ==
    /\ ContractsClassified
    /\ \E i \in Persons :
          /\ ContractParses(i)
          /\ ContractInstant(i) = PlusDays(today, ContractHorizon)
          /\ InBucket(imminent_contracts, i)

---------------------------------------------------------------------------

InitRun ==
    /\ pc = "load"
    /\ master_cols = {}
    /\ act_cols = {}
    /\ master_df = << >>
    /\ activities_df = << >>
    /\ today = NaT
    /\ alert_found = FALSE
    /\ imminent_contracts = << >>
    /\ imminent_activities = << >>
    /\ overdue_activities = << >>
    /\ out = << >>
    /\ all_normal = FALSE
    /\ exit_code = NoExit
    /\ selected_name = ""
    /\ timeline_data = [m \in {} |-> 0]
    /\ completed_timeline = [m \in {} |-> 0]
    /\ kpi = NoKpi
    /\ detail = NoDetail

\* a run of alert.py over a snapshot whose dates vary
InitAlert ==
    /\ prog = "alert"
    /\ master_sheet \in RosterSheets(ContractCells, {NumCell(100)}, {NumCell(50)})
    /\ activities_sheet \in ActivitySheets({TRUE}, OwnerIds, DueCells, Statuses)
    /\ InitRun

\* a run of app.py over a snapshot whose dates vary
InitDash ==
    /\ prog = "app"
    /\ master_sheet \in RosterSheets(ContractCells, {NumCell(100)}, {NumCell(50)})
    /\ activities_sheet \in ActivitySheets({TRUE}, OwnerIds, DueCells, Statuses)
    /\ InitRun

\* budget cells, spent cells and the status labels of the metrics snapshots
BudgetCells == {BadNum, NumCell(0), NumCell(100)}
SpentCells == {NumCell(0), NumCell(50), NumCell(150)}
MetricStatuses == {"Done", "Planned", "done"}

\* a run of app.py over a snapshot whose amounts and identifiers vary
InitMetrics ==
    /\ prog = "app"
    /\ master_sheet \in
          RosterSheets({DateCell(BaseDay + CONTRACT_ALERT_DAYS)}, BudgetCells, SpentCells)
    /\ activities_sheet \in
          WithTrailingBlank(ActivitySheets(BOOLEAN, OwnerIds, {DateCell(BaseDay)},
                                           MetricStatuses))
    /\ InitRun

Init == InitAlert \/ InitDash \/ InitMetrics

Next ==
    \/ AppLoad
    \/ AppSidebar
    \/ AppCharts
    \/ AppKPI
    \/ AppAlerts
    \/ AppDetail
    \/ AlertLoad
    \/ AlertNormalize
    \/ AlertContracts
    \/ AlertImminentActivities
    \/ AlertOverdue
    \/ AlertFinish

Spec == Init /\ [][Next]_vars

=============================================================================
